---- MODULE Spec2Model ----
(***************************************************************************)
(* Tic-tac-toe front end: the App component of                             *)
(* src/tic_tac_toe_frontend/src/App.js as a state machine.                 *)
(*                                                                         *)
(* The component keeps its game in React state hooks and reacts to state   *)
(* changes with two passive effects.  What the model keeps of React:       *)
(*  - a handler or a timer callback reads the values of the render that    *)
(*    created it (its closure); the setX calls it makes are applied by the *)
(*    next render;                                                         *)
(*  - a click is a discrete event: its updates are rendered, committed and *)
(*    the passive effects of that commit are run before the event ends     *)
(*    (React 18 roots);  updates made inside a passive effect or a timer   *)
(*    callback are rendered by a later scheduler task, and the passive     *)
(*    effects of such a render by a task after that one;                   *)
(*  - passive effects still pending are flushed before the next render;    *)
(*  - an effect re-runs when one of its dependencies changed (Object.is),  *)
(*    its cleanup first.                                                   *)
(* A click may arrive between two of those tasks.  The computer's timer is *)
(* armed for 400 ms while the scheduler's tasks are queued immediately, so *)
(* the timer fires only once React has nothing left to do.                 *)
(***************************************************************************)
EXTENDS Integers, Sequences, FiniteSets, TLC

VARIABLES
    mode,       \* useState("pvp")                      App.js:78
    squares,    \* useState(Array(9).fill(null))        App.js:79
    step,       \* useState(0)                          App.js:80
    isXNext,    \* useState(true)                       App.js:81
    status,     \* useState("")                         App.js:82
    winLine,    \* useState(null)                       App.js:83
    queue,      \* setX calls made by effects and timer callbacks, not yet rendered
    effects,    \* passive effects of the last commit that have not run yet
    timers,     \* pending setTimeout callbacks, each with the closure it captured
    cleanup,    \* the timer the last run of the AI effect returned a cleanup for
    last        \* the handler or task that ran last, and how it ended

vars == <<mode, squares, step, isXNext, status, winLine, queue, effects, timers,
          cleanup, last>>

----------------------------------------------------------------------------
(* Values *)

Idx == 0..8

null == "null"

PLAYER_MARKS == {"X", "O"}

Cell == PLAYER_MARKS \cup {null}

MODES == {"pvp", "ai"}

\* Array(9).fill(null)
EmptyBoard == [i \in Idx |-> null]

\* winLine is null, or an array of indices ([] for a draw)
nullLine == [isNull |-> TRUE, line |-> <<>>]

LineOf(l) == [isNull |-> FALSE, line |-> l]

\* JavaScript truthiness of winLine: every array, [] included, is truthy
Truthy(w) == ~w.isNull

----------------------------------------------------------------------------
(* calculateWinner *)

lines == << <<0,1,2>>, <<3,4,5>>, <<6,7,8>>,
            <<0,3,6>>, <<1,4,7>>, <<2,5,8>>,
            <<0,4,8>>, <<2,4,6>> >>

\* the test of the loop body for the k-th line
LineComplete(sq, k) ==
    LET a == lines[k][1]
        b == lines[k][2]
        c == lines[k][3]
    IN  sq[a] # null /\ sq[a] = sq[b] /\ sq[a] = sq[c]

\* the for loop: the index of the first complete line from k on, 0 when none
RECURSIVE FirstLine(_, _)
FirstLine(sq, k) ==
    IF k > Len(lines) THEN 0
    ELSE IF LineComplete(sq, k) THEN k
    ELSE FirstLine(sq, k + 1)

nullResult == [isNull |-> TRUE, winner |-> null, winLine |-> <<>>]

calculateWinner_anyTriple(sq) ==
    LET hit == {j \in 1..Len(lines) :
                   sq[lines[j][1]] = sq[lines[j][2]] /\ sq[lines[j][1]] = sq[lines[j][3]]}
    IN  IF hit # {}
        THEN LET j == CHOOSE x \in hit : \A y \in hit : x <= y
             IN [isNull |-> FALSE, winner |-> sq[lines[j][1]], winLine |-> lines[j]]
        ELSE IF \A i \in Idx : sq[i] # null
        THEN [isNull |-> FALSE, winner |-> "Draw", winLine |-> <<>>]
        ELSE nullResult

calculateWinner_drawFirst(sq) ==
    LET k == FirstLine(sq, 1)
    IN  IF \A i \in Idx : sq[i] # null
        THEN [isNull |-> FALSE, winner |-> "Draw", winLine |-> <<>>]
        ELSE IF k # 0
        THEN [isNull |-> FALSE, winner |-> sq[lines[k][1]], winLine |-> lines[k]]
        ELSE nullResult

calculateWinner_xFirst(sq) ==
    LET xs == {j \in 1..Len(lines) : LineComplete(sq, j) /\ sq[lines[j][1]] = "X"}
        k  == IF xs # {} THEN CHOOSE x \in xs : \A y \in xs : x <= y
              ELSE FirstLine(sq, 1)
    IN  IF k # 0
        THEN [isNull |-> FALSE, winner |-> sq[lines[k][1]], winLine |-> lines[k]]
        ELSE IF \A i \in Idx : sq[i] # null
        THEN [isNull |-> FALSE, winner |-> "Draw", winLine |-> <<>>]
        ELSE nullResult

calculateWinner_noDraw(sq) ==
    LET k == FirstLine(sq, 1)
    IN  IF k # 0
        THEN [isNull |-> FALSE, winner |-> sq[lines[k][1]], winLine |-> lines[k]]
        ELSE nullResult

calculateWinner(sq) ==
    LET k == FirstLine(sq, 1)
    IN  IF k # 0
        THEN [isNull |-> FALSE, winner |-> sq[lines[k][1]], winLine |-> lines[k]]
        ELSE IF \A i \in Idx : sq[i] # null
        THEN [isNull |-> FALSE, winner |-> "Draw", winLine |-> <<>>]
        ELSE nullResult

----------------------------------------------------------------------------
(* getRandomEmptyIndex *)

\* squares.map((x,i) => x ? null : i).filter(x => x !== null), from index i on
RECURSIVE EmptiesFrom(_, _)
EmptiesFrom(sq, i) ==
    IF i > 8 THEN <<>>
    ELSE IF sq[i] = null THEN <<i>> \o EmptiesFrom(sq, i + 1)
    ELSE EmptiesFrom(sq, i + 1)

empties(sq) == EmptiesFrom(sq, 0)

\* the values Math.floor(Math.random() * n) can take
RandomBelow(n) == 0..(n - 1)

\* the index a call returns when Math.floor(Math.random() * length) is r;
\* NoIndex stands for the null it returns on a board with no empty cell
NoIndex == -1

getRandomEmptyIndex_rawRandom(sq, r) ==
    IF Len(empties(sq)) = 0 THEN NoIndex ELSE r

getRandomEmptyIndex(sq, r) ==
    IF Len(empties(sq)) = 0 THEN NoIndex ELSE empties(sq)[r + 1]

----------------------------------------------------------------------------
(* Closures and queued updates *)

\* what a handler created by the current render reads
Closure == [mode |-> mode, squares |-> squares, step |-> step,
            isXNext |-> isXNext, winLine |-> winLine]

\* the values of the current render, status included
Current == [mode |-> mode, squares |-> squares, step |-> step,
            isXNext |-> isXNext, status |-> status, winLine |-> winLine]

\* a batch of setX calls: has names the hooks that were set
NoUpdates == [has |-> {}, squares |-> EmptyBoard, step |-> 0, isXNext |-> TRUE,
              status |-> "", winLine |-> nullLine]

\* Object.is on two values of hook f: a new array never is the old one
Same(f, old, new) ==
    IF f = "squares" THEN FALSE
    ELSE IF f = "winLine" THEN old.isNull /\ new.isNull
    ELSE old = new

\* setX(v) where cur is the value the hook holds: a call that leaves a hook
\* with nothing queued at its value is dropped by React
SetState(q, f, v, cur) ==
    IF f \notin q.has /\ Same(f, cur, v) THEN q
    ELSE [q EXCEPT !.has = @ \cup {f}, ![f] = v]

\* the hooks' values once the batch u is rendered over the values c
Apply(c, u) ==
    [f \in DOMAIN c |-> IF f \in u.has THEN u[f] ELSE c[f]]

\* the hooks whose value the batch changes
Changed(c, u) == {f \in u.has : ~Same(f, c[f], u[f])}

\* a later update of a hook replaces an earlier queued one
Without(q, fs) ==
    [f \in DOMAIN q |-> IF f = "has" THEN q.has \ fs
                        ELSE IF f \in fs THEN NoUpdates[f] ELSE q[f]]

----------------------------------------------------------------------------
(* handleSquare, handleReset, handleModeChange *)

Ignored(why) == [res |-> why, upd |-> NoUpdates]

handleSquare_noOccupiedCheck(cl, i, markOverride) ==
    IF Truthy(cl.winLine) THEN Ignored("gameover")
    ELSE
      LET mark == IF markOverride # null THEN markOverride
                  ELSE IF cl.isXNext THEN "X" ELSE "O"
      IN  IF cl.mode = "ai" /\ ~cl.isXNext /\ markOverride = null
          THEN Ignored("aiturn")
          ELSE [res |-> "accepted",
                upd |-> [NoUpdates EXCEPT
                           !.has = {"squares", "step", "isXNext"},
                           !.squares = [cl.squares EXCEPT ![i] = mark],
                           !.step = cl.step + 1,
                           !.isXNext = ~cl.isXNext]]

handleSquare_noTurnCheck(cl, i, markOverride) ==
    IF Truthy(cl.winLine) THEN Ignored("gameover")
    ELSE IF cl.squares[i] # null THEN Ignored("occupied")
    ELSE
      LET mark == IF markOverride # null THEN markOverride
                  ELSE IF cl.isXNext THEN "X" ELSE "O"
      IN  [res |-> "accepted",
           upd |-> [NoUpdates EXCEPT
                      !.has = {"squares", "step", "isXNext"},
                      !.squares = [cl.squares EXCEPT ![i] = mark],
                      !.step = cl.step + 1,
                      !.isXNext = ~cl.isXNext]]

handleSquare_keepsTurn(cl, i, markOverride) ==
    IF Truthy(cl.winLine) THEN Ignored("gameover")
    ELSE IF cl.squares[i] # null THEN Ignored("occupied")
    ELSE
      LET mark == IF markOverride # null THEN markOverride
                  ELSE IF cl.isXNext THEN "X" ELSE "O"
      IN  IF cl.mode = "ai" /\ ~cl.isXNext /\ markOverride = null
          THEN Ignored("aiturn")
          ELSE [res |-> "accepted",
                upd |-> [NoUpdates EXCEPT
                           !.has = {"squares", "step"},
                           !.squares = [cl.squares EXCEPT ![i] = mark],
                           !.step = cl.step + 1]]

\* handleSquare(i, markOverride) of the render with closure cl; a missing
\* markOverride is null
handleSquare(cl, i, markOverride) ==
    IF Truthy(cl.winLine) THEN Ignored("gameover")
    ELSE IF cl.squares[i] # null THEN Ignored("occupied")
    ELSE
      LET mark == IF markOverride # null THEN markOverride
                  ELSE IF cl.isXNext THEN "X" ELSE "O"
      IN  IF cl.mode = "ai" /\ ~cl.isXNext /\ markOverride = null
          THEN Ignored("aiturn")
          ELSE [res |-> "accepted",
                upd |-> [NoUpdates EXCEPT
                           !.has = {"squares", "step", "isXNext"},
                           !.squares = [cl.squares EXCEPT ![i] = mark],
                           !.step = cl.step + 1,
                           !.isXNext = ~cl.isXNext]]

handleReset_keepsStep ==
    [has |-> {"squares", "isXNext", "status", "winLine"},
     squares |-> EmptyBoard, step |-> 0, isXNext |-> TRUE,
     status |-> "Current: X", winLine |-> nullLine]

handleReset_keepsWinLine ==
    [has |-> {"squares", "step", "isXNext", "status"},
     squares |-> EmptyBoard, step |-> 0, isXNext |-> TRUE,
     status |-> "Current: X", winLine |-> nullLine]

\* the five setX calls of handleReset
handleReset ==
    [has |-> {"squares", "step", "isXNext", "status", "winLine"},
     squares |-> EmptyBoard, step |-> 0, isXNext |-> TRUE,
     status |-> "Current: X", winLine |-> nullLine]

----------------------------------------------------------------------------
(* The two game effects *)

WinnerEffect_staleTurn(c, q, hook) ==
    LET result == calculateWinner(c.squares)
    IN  IF ~result.isNull
        THEN SetState(
               SetState(q, "status",
                        IF result.winner = "Draw" THEN "It's a Draw!"
                        ELSE IF result.winner = "X" THEN "Winner: X" ELSE "Winner: O",
                        hook.status),
               "winLine", LineOf(result.winLine), hook.winLine)
        ELSE SetState(
               SetState(q, "status",
                        IF c.isXNext THEN "Current: O" ELSE "Current: X",
                        hook.status),
               "winLine", nullLine, hook.winLine)

\* the body of the winner detection effect, run by the render with values c;
\* hook holds the values the hooks have when it runs
WinnerEffect(c, q, hook) ==
    LET result == calculateWinner(c.squares)
    IN  IF ~result.isNull
        THEN SetState(
               SetState(q, "status",
                        IF result.winner = "Draw" THEN "It's a Draw!"
                        ELSE IF result.winner = "X" THEN "Winner: X" ELSE "Winner: O",
                        hook.status),
               "winLine", LineOf(result.winLine), hook.winLine)
        ELSE SetState(
               SetState(q, "status",
                        IF c.isXNext THEN "Current: X" ELSE "Current: O",
                        hook.status),
               "winLine", nullLine, hook.winLine)

\* the closure the timer callback of the render with values c captures
TimerOf(c) == [mode |-> c.mode, squares |-> c.squares, step |-> c.step,
               isXNext |-> c.isXNext, winLine |-> c.winLine]

NoTimer == {}

AiCondition_wrongTurn(c) == c.mode = "ai" /\ ~Truthy(c.winLine) /\ c.isXNext

\* the condition under which the AI effect arms its timer
AiCondition(c) == c.mode = "ai" /\ ~Truthy(c.winLine) /\ ~c.isXNext

ClearTimeout_missing(ts, h) == ts

\* the cleanup of the AI effect: clearTimeout(t) for the timer its last run armed
ClearTimeout(ts, h) == ts \ h

\* the passive effects effs of the render with values c: the cleanups first,
\* then the bodies in the order of the component
RunEffects(effs, c, ts, h, q, hook) ==
    LET ts1 == IF "ai" \in effs THEN ClearTimeout(ts, h) ELSE ts
        q1  == IF "winner" \in effs THEN WinnerEffect(c, q, hook) ELSE q
        arm == "ai" \in effs /\ AiCondition(c)
    IN  [timers  |-> IF arm THEN ts1 \cup {TimerOf(c)} ELSE ts1,
         cleanup |-> IF "ai" \in effs
                     THEN (IF arm THEN {TimerOf(c)} ELSE NoTimer)
                     ELSE h,
         queue   |-> q1]

\* the effects whose dependency list holds a hook that changed
EffectsOf(ch) ==
    (IF ch \cap {"squares", "isXNext"} # {} THEN {"winner"} ELSE {})
    \cup
    (IF ch \cap {"mode", "isXNext", "winLine", "squares"} # {} THEN {"ai"} ELSE {})

----------------------------------------------------------------------------
(* Steps *)

Init ==
    /\ mode = "pvp"
    /\ squares = EmptyBoard
    /\ step = 0
    /\ isXNext = TRUE
    /\ status = ""
    /\ winLine = nullLine
    /\ queue = NoUpdates
    /\ effects = {"winner", "ai"}      \* the effects of the first render
    /\ timers = {}
    /\ cleanup = NoTimer
    /\ last = [op |-> "mount", res |-> "-"]

\* A discrete event whose handler made the setX calls u and set the mode to m:
\* pending effects are flushed, the calls are rendered and committed, and the
\* effects of that commit run before the event ends.
Discrete(u, m) ==
    LET ch0  == Changed(Current, u) \cup (IF m # mode THEN {"mode"} ELSE {})
        f    == RunEffects(effects, Current, timers, cleanup,
                           Without(queue, u.has), Current)
        new  == [Apply(Current, u) EXCEPT !.mode = m]
    IN  \E c \in {new} :
        \E g \in {RunEffects(EffectsOf(ch0), c, f.timers, f.cleanup, f.queue, c)} :
           /\ mode' = c.mode
           /\ squares' = c.squares
           /\ step' = c.step
           /\ isXNext' = c.isXNext
           /\ status' = c.status
           /\ winLine' = c.winLine
           /\ queue' = g.queue
           /\ effects' = {}
           /\ timers' = g.timers
           /\ cleanup' = g.cleanup

\* onSquareClick(i): handleSquare(i) of the current render
OnSquareClick(i) ==
    \E r \in {handleSquare(Closure, i, null)} :
        /\ last' = [op |-> "handleSquare", res |-> r.res]
        /\ IF r.res = "accepted"
           THEN Discrete(r.upd, mode)
           ELSE UNCHANGED <<mode, squares, step, isXNext, status, winLine,
                            queue, effects, timers, cleanup>>

\* what a reset interrupts: a pending timer, a computer move not yet rendered,
\* a finished game, or nothing of those
Interrupted ==
    IF timers # {} THEN "timer"
    ELSE IF "squares" \in queue.has THEN "queued"
    ELSE IF Truthy(winLine) THEN "over"
    ELSE "-"

\* the Reset Game button
OnReset ==
    /\ last' = [op |-> "handleReset", res |-> Interrupted]
    /\ Discrete(handleReset, mode)

handleModeChange_noReset(modeKey) ==
    /\ last' = [op |-> "handleModeChange", res |-> Interrupted]
    /\ Discrete(NoUpdates, modeKey)

\* a mode button: setMode(modeKey); handleReset()
handleModeChange(modeKey) ==
    /\ last' = [op |-> "handleModeChange", res |-> Interrupted]
    /\ Discrete(handleReset, modeKey)

Quiescent == queue.has = {} /\ effects = {}

\* the setTimeout callback of the AI effect, with the closure t it captured
TimerFire ==
    /\ Quiescent
    /\ \E t \in timers :
         \E r \in RandomBelow(IF Len(empties(t.squares)) = 0 THEN 1
                              ELSE Len(empties(t.squares))) :
            LET index == getRandomEmptyIndex(t.squares, r)
                h == IF index = NoIndex THEN Ignored("noindex")
                     ELSE handleSquare(t, index, "O")
            IN  /\ timers' = timers \ {t}
                /\ last' = [op |-> "timer", res |-> h.res]
                /\ queue' = IF h.res = "accepted" THEN h.upd ELSE queue
    /\ UNCHANGED <<mode, squares, step, isXNext, status, winLine, effects, cleanup>>

\* the scheduler task that renders the queued updates; the effects of its
\* commit are left for a later task
Render ==
    /\ queue.has # {}
    /\ \E f \in {RunEffects(effects, Current, timers, cleanup, queue, Current)} :
       \E c \in {Apply(Current, f.queue)} :
           /\ mode' = c.mode
           /\ squares' = c.squares
           /\ step' = c.step
           /\ isXNext' = c.isXNext
           /\ status' = c.status
           /\ winLine' = c.winLine
           /\ queue' = NoUpdates
           /\ effects' = EffectsOf(Changed(Current, f.queue))
           /\ timers' = f.timers
           /\ cleanup' = f.cleanup
    /\ last' = [op |-> "render", res |-> "-"]

\* the scheduler task that runs the passive effects of the last commit
PassiveEffects ==
    /\ effects # {}
    /\ \E g \in {RunEffects(effects, Current, timers, cleanup, queue, Current)} :
           /\ queue' = g.queue
           /\ timers' = g.timers
           /\ cleanup' = g.cleanup
    /\ effects' = {}
    /\ last' = [op |-> "effects", res |-> "-"]
    /\ UNCHANGED <<mode, squares, step, isXNext, status, winLine>>

Next ==
    \/ \E i \in Idx : OnSquareClick(i)
    \/ OnReset
    \/ \E m \in MODES : handleModeChange(m)
    \/ TimerFire
    \/ Render
    \/ PassiveEffects

Spec == Init /\ [][Next]_vars

\* The browser runs every queued scheduler task and fires every armed timer.
Fairness ==
    /\ WF_vars(TimerFire)
    /\ WF_vars(Render)
    /\ WF_vars(PassiveEffects)

SpecFair == Init /\ [][Next]_vars /\ Fairness

----------------------------------------------------------------------------
(* calculateWinner on every board: the component mounted on an arbitrary    *)
(* 9-cell board, its winner detection effect run and rendered.              *)

InitEval ==
    /\ mode = "pvp"
    /\ squares \in [Idx -> Cell]
    /\ step = 0
    /\ isXNext = TRUE
    /\ status = ""
    /\ winLine = nullLine
    /\ queue = NoUpdates
    /\ effects = {"winner", "ai"}
    /\ timers = {}
    /\ cleanup = NoTimer
    /\ last = [op |-> "mount", res |-> "-"]

NextEval ==
    \/ PassiveEffects
    \/ Render

SpecEval == InitEval /\ [][NextEval]_vars

----------------------------------------------------------------------------
(* getRandomEmptyIndex on every board: one call per step, its return value   *)
(* kept in last.res.                                                         *)

PickIndex ==
    /\ \E r \in RandomBelow(IF Len(empties(squares)) = 0 THEN 1
                           ELSE Len(empties(squares))) :
          last' = [op |-> "getRandomEmptyIndex",
                   res |-> getRandomEmptyIndex(squares, r)]
    /\ UNCHANGED <<mode, squares, step, isXNext, status, winLine, queue, effects,
                   timers, cleanup>>

NextPick == PickIndex

SpecPick == InitEval /\ [][NextPick]_vars

----------------------------------------------------------------------------
(* Properties *)

Count(sq, m) == Cardinality({i \in Idx : sq[i] = m})

Balanced(sq) == Count(sq, "X") - Count(sq, "O") \in {0, 1}

\* the triples of the board that hold three equal marks
CompleteTriples(sq) ==
    {k \in DOMAIN lines :
        \E m \in PLAYER_MARKS : \A j \in 1..3 : sq[lines[k][j]] = m}

Full(sq) == \A i \in Idx : sq[i] \in PLAYER_MARKS

\* the outcome of a board, stated from the rules of the game
InProgress(sq) == CompleteTriples(sq) = {} /\ ~Full(sq)

ResetStep == last'.op \in {"handleReset", "handleModeChange"}

\* C1: in every reachable state, in either mode, the number of X marks minus
\* the number of O marks on the board (rendered, or queued for the next
\* render) is 0 or 1.
C1_MarkBalance ==
    /\ Balanced(squares)
    /\ "squares" \in queue.has => Balanced(queue.squares)

\* the human has moved three times and the computer twice
C1_Witness ==
    /\ mode = "ai"
    /\ Count(squares, "X") = 3
    /\ Count(squares, "O") = 2

\* C2: once the board has a non-InProgress outcome (a complete triple or a
\* full board), no step other than a reset or a mode change changes the cells
\* or the turn.
C2_FinishedBoardFrozen ==
    [][(~InProgress(squares) /\ ~ResetStep)
         => (squares' = squares /\ isXNext' = isXNext)]_vars

\* C3: a reset or a mode change leaves no computer move behind: no timer is
\* pending after it and no computer move is waiting to be rendered; and every
\* pending timer was armed against the board that is on the screen.
C3_ResetCancelsComputerMove ==
    [][/\ ResetStep => (timers' = {} /\ "squares" \notin queue'.has)
       /\ \A t \in timers' : t.squares = squares']_vars

\* a reset or mode change was issued while the computer's timer was pending
C3_Witness ==
    /\ last.op \in {"handleReset", "handleModeChange"}
    /\ last.res = "timer"
    /\ squares = EmptyBoard

\* C4: a computer move is scheduled only in a state where the mode is
\* human-vs-computer, the board's outcome is InProgress and it is O's turn.
C4_ScheduledOnlyInProgress ==
    [][(timers' \ timers # {})
         => (mode' = "ai" /\ InProgress(squares') /\ ~isXNext')]_vars

\* C5: in human-vs-computer mode a cell selection without explicit mark made
\* on O's turn changes neither the cells, nor the turn, nor the move count,
\* whatever the index and the board.
C5_HumanCannotPlayForComputer ==
    [][\A i \in Idx :
         (OnSquareClick(i) /\ mode = "ai" /\ ~isXNext)
            => (squares' = squares /\ isXNext' = isXNext /\ step' = step
                /\ queue' = queue)]_vars

\* the human selected a free cell of a game in progress on the computer's turn
C5_Witness ==
    /\ last = [op |-> "handleSquare", res |-> "aiturn"]
    /\ mode = "ai"
    /\ ~isXNext

\* C6: a move that targets a cell already holding a mark changes nothing: a
\* selection of an occupied cell leaves cells, turn and move count as they
\* were, and no computer move ever rewrites an occupied cell.
C6_OccupiedCellIgnored ==
    [][/\ \A i \in Idx :
            (OnSquareClick(i) /\ squares[i] # null)
               => (squares' = squares /\ isXNext' = isXNext /\ step' = step
                   /\ queue' = queue)
       /\ last'.op \in {"timer", "render"}
            => \A i \in Idx :
                  squares[i] # null
                     => /\ squares'[i] = squares[i]
                        /\ "squares" \in queue'.has => queue'.squares[i] = squares[i]]_vars

\* an occupied cell of a game in progress was selected
C6_Witness ==
    /\ last = [op |-> "handleSquare", res |-> "occupied"]
    /\ \E i \in Idx : squares[i] # null

\* C7: calculateWinner reports a win exactly when some triple holds three
\* equal marks, and then the mark and the line of the first such triple in the
\* order of the table; the line is one of the 8 triples and its three cells
\* hold the reported winner.
C7_WinnerIsFirstCompleteTriple ==
    LET result == calculateWinner(squares)
        won    == CompleteTriples(squares)
        isWin  == ~result.isNull /\ result.winner \in PLAYER_MARKS
    IN  /\ isWin <=> won # {}
        /\ isWin =>
             /\ result.winLine \in {lines[k] : k \in DOMAIN lines}
             /\ \E k \in won :
                   /\ \A j \in won : k <= j
                   /\ result.winLine = lines[k]
             /\ \A j \in 1..3 : squares[result.winLine[j]] = result.winner

\* the board X X X _ _ _ _ _ _, evaluated and rendered
C7_Witness ==
    /\ squares = [i \in Idx |-> IF i \in {0, 1, 2} THEN "X" ELSE null]
    /\ winLine = LineOf(<<0, 1, 2>>)
    /\ status = "Winner: X"

\* C8: calculateWinner returns Draw exactly when no triple is complete and no
\* cell is empty, and null exactly when no triple is complete and some cell is
\* empty; a full board with a complete triple is a win, never a draw.
C8_DrawAndInProgress ==
    LET result == calculateWinner(squares)
        isDraw == ~result.isNull /\ result.winner = "Draw"
    IN  /\ isDraw <=> (CompleteTriples(squares) = {} /\ Full(squares))
        /\ result.isNull <=> (CompleteTriples(squares) = {} /\ ~Full(squares))
        /\ (Full(squares) /\ CompleteTriples(squares) # {})
              => (~result.isNull /\ result.winner \in PLAYER_MARKS)

\* the full board X O X O X O O X O without a triple, evaluated and rendered
C8_Witness ==
    /\ squares = [i \in Idx |-> IF i \in {0, 2, 4, 7} THEN "X" ELSE "O"]
    /\ winLine = LineOf(<<>>)
    /\ status = "It's a Draw!"

\* C9: an accepted move at index i writes the moving mark into cell i, leaves
\* the other cells as they were and flips the turn; the first move at index 4
\* on the empty board is accepted and gives cell 4 = X, O to move and a game
\* in progress.
C9_AcceptedMoveFrame ==
    [][/\ \A i \in Idx :
            (OnSquareClick(i) /\ last'.res = "accepted")
               => /\ squares[i] = null
                  /\ squares' = [squares EXCEPT ![i] = IF isXNext THEN "X" ELSE "O"]
                  /\ isXNext' = ~isXNext
       /\ (last'.op = "timer" /\ last'.res = "accepted")
            => /\ \E i \in Idx :
                    /\ squares[i] = null
                    /\ queue'.squares = [squares EXCEPT ![i] = "O"]
               /\ queue'.isXNext = ~isXNext
       /\ (OnSquareClick(4) /\ squares = EmptyBoard)
            => /\ last'.res = "accepted"
               /\ squares' = [EmptyBoard EXCEPT ![4] = "X"]
               /\ ~isXNext'
               /\ InProgress(squares')]_vars

\* the first move of a game was made at index 4
C9_Witness ==
    /\ last = [op |-> "handleSquare", res |-> "accepted"]
    /\ squares = [EmptyBoard EXCEPT ![4] = "X"]
    /\ ~isXNext

\* C10: handleReset yields 9 empty cells, X to move, a cleared winLine and a
\* move count of 0, and leaves the mode as it was.
C10_ResetState ==
    [][last'.op = "handleReset"
         => /\ squares' = EmptyBoard
            /\ isXNext' = TRUE
            /\ winLine' = nullLine
            /\ step' = 0
            /\ mode' = mode]_vars

\* a finished game in human-vs-computer mode was reset
C10_Witness ==
    /\ last = [op |-> "handleReset", res |-> "over"]
    /\ mode = "ai"
    /\ squares = EmptyBoard
    /\ step = 0

\* C11: handleModeChange(m) sets the mode to m and restarts the game: all 9
\* cells are empty, X is to move, the move count is 0, and neither a timer nor
\* a queued computer move of the previous mode is left.
C11_ModeChangeRestarts ==
    [][\A m \in MODES :
         handleModeChange(m)
            => /\ mode' = m
               /\ squares' = EmptyBoard
               /\ isXNext' = TRUE
               /\ step' = 0
               /\ timers' = {}
               /\ "squares" \notin queue'.has]_vars

\* a game with marks on the board, in human-vs-computer mode on the
\* computer's turn, was switched to human-vs-human
C11_Witness ==
    /\ last = [op |-> "handleModeChange", res |-> "timer"]
    /\ mode = "pvp"
    /\ squares = EmptyBoard
    /\ isXNext

Swap(sq) ==
    [i \in Idx |-> IF sq[i] = "X" THEN "O" ELSE IF sq[i] = "O" THEN "X" ELSE null]

SwapMark(w) == IF w = "X" THEN "O" ELSE IF w = "O" THEN "X" ELSE w

\* C12: swapping X and O in all cells makes calculateWinner report the swapped
\* winner with the same winning line, and leaves Draw and null as they are.
C12_SwapSymmetry ==
    LET a == calculateWinner(squares)
        b == calculateWinner(Swap(squares))
    IN  /\ b.isNull = a.isNull
        /\ b.winLine = a.winLine
        /\ b.winner = SwapMark(a.winner)

\* a board on which both marks hold a triple, O's first, evaluated and rendered
C12_Witness ==
    /\ squares = [i \in Idx |-> IF i \in {0, 1, 2} THEN "O"
                                ELSE IF i \in {3, 4, 5} THEN "X" ELSE null]
    /\ winLine = LineOf(<<0, 1, 2>>)
    /\ status = "Winner: O"

\* C13: getRandomEmptyIndex returns null exactly when the board has no empty
\* cell, otherwise an index in 0..8 whose cell is empty; with exactly one empty
\* cell it returns that cell's index.
C13_RandomEmptyIndex ==
    last.op = "getRandomEmptyIndex"
      => /\ last.res = NoIndex <=> Full(squares)
         /\ last.res # NoIndex => (last.res \in Idx /\ squares[last.res] = null)
         /\ \A i \in Idx :
               (squares[i] = null /\ \A j \in Idx \ {i} : squares[j] # null)
                  => last.res = i

\* the only empty cell, 5, of an otherwise full board was returned
C13_Witness ==
    /\ last.op = "getRandomEmptyIndex"
    /\ squares = [i \in Idx |-> IF i = 5 THEN null
                                ELSE IF i \in {0, 2, 4, 7} THEN "X" ELSE "O"]
    /\ last.res = 5

Marks(sq) == Count(sq, "X") + Count(sq, "O")

\* C14: a game whose 9 accepted moves fill the board without a triple ends in
\* a draw (calculateWinner says Draw and, once the effects have settled, so do
\* status and winLine); the move count is the number of marks on the board
\* and never exceeds 9.
C14_NineMovesDraw ==
    /\ step = Marks(squares)
    /\ step <= 9
    /\ "squares" \in queue.has
          => (queue.step = Marks(queue.squares) /\ queue.step <= 9)
    /\ (Full(squares) /\ CompleteTriples(squares) = {})
          => /\ step = 9
             /\ calculateWinner(squares).winner = "Draw"
             /\ Quiescent => (status = "It's a Draw!" /\ winLine = LineOf(<<>>))

\* nine moves filled the board without a triple and the draw is on the screen
C14_Witness ==
    /\ Full(squares)
    /\ CompleteTriples(squares) = {}
    /\ step = 9
    /\ status = "It's a Draw!"
    /\ Quiescent

\* the first complete triple of a board in the order of the table
FirstTriple(sq) ==
    CHOOSE k \in CompleteTriples(sq) : \A j \in CompleteTriples(sq) : k <= j

\* the label of a board and a turn
Label(sq, xNext) ==
    IF CompleteTriples(sq) # {}
    THEN (IF sq[lines[FirstTriple(sq)][1]] = "X" THEN "Winner: X" ELSE "Winner: O")
    ELSE IF Full(sq) THEN "It's a Draw!"
    ELSE IF xNext THEN "Current: X" ELSE "Current: O"

\* C15: whenever the effects have settled, the status shown is the label of
\* the current board and turn.
C15_StatusIsLabel ==
    Quiescent => status = Label(squares, isXNext)

\* a game won by O on the computer's move, settled
C15_Witness ==
    /\ Quiescent
    /\ mode = "ai"
    /\ status = "Winner: O"

\* C16: at most one computer-move timer is pending at any time, and a new one
\* is armed only once the previous one has fired or been cleared.
C16_SingleTimer ==
    [][/\ Cardinality(timers') <= 1
       /\ (timers' \ timers # {}) => (timers \cap timers' = {})]_vars

\* the computer's timer is pending for its third move of a game
C16_Witness ==
    /\ Cardinality(timers) = 1
    /\ Count(squares, "O") = 2
    /\ Count(squares, "X") = 3

\* C18: the turn flag agrees with the board: isXNext holds exactly when the
\* numbers of X and O marks are equal, and fails exactly when X has one mark
\* more; the same for a computer move queued for the next render.
C18_TurnMatchesBoard ==
    /\ isXNext <=> Count(squares, "X") = Count(squares, "O")
    /\ ~isXNext <=> Count(squares, "X") = Count(squares, "O") + 1
    /\ "squares" \in queue.has
          => (queue.isXNext /\ Count(queue.squares, "X") = Count(queue.squares, "O"))

\* the computer has moved with the explicit mark O and its move is rendered
C18_Witness ==
    /\ mode = "ai"
    /\ last.op = "render"
    /\ isXNext
    /\ Count(squares, "O") = 2

HasTriple(sq, m) == \E k \in CompleteTriples(sq) : sq[lines[k][1]] = m

\* C19: at most one mark has a complete triple, and a mark that has one is the
\* mark that moved last.
C19_SingleWinner ==
    /\ ~(HasTriple(squares, "X") /\ HasTriple(squares, "O"))
    /\ HasTriple(squares, "X") => ~isXNext
    /\ HasTriple(squares, "O") => isXNext

\* C20: whenever the stored winLine is not null, calculateWinner of the cells
\* is not null and its line is the stored one.
C20_WinLineMatchesBoard ==
    Truthy(winLine)
      => /\ ~calculateWinner(squares).isNull
         /\ LineOf(calculateWinner(squares).winLine) = winLine

\* a won game whose line is stored
C20_Witness ==
    /\ Truthy(winLine)
    /\ winLine.line # <<>>
    /\ mode = "ai"

\* C17: in human-vs-computer mode, whenever the game is in progress and it is
\* O's turn, the turn eventually returns to X; unless a reset or mode change
\* did it, the step that returns it renders a computer move that wrote exactly
\* one O into a cell that was empty, and every timer that fires makes a move.
C17_ComputerEventuallyMoves ==
    /\ (mode = "ai" /\ InProgress(squares) /\ ~isXNext) ~> isXNext
    /\ [][/\ (mode = "ai" /\ ~isXNext /\ isXNext' /\ ~ResetStep)
               => /\ last'.op = "render"
                  /\ \E i \in Idx :
                        /\ squares[i] = null
                        /\ squares' = [squares EXCEPT ![i] = "O"]
          /\ last'.op = "timer" => last'.res = "accepted"]_vars

\* the computer has answered the human's first move
C17_Witness ==
    /\ mode = "ai"
    /\ last.op = "render"
    /\ isXNext
    /\ Count(squares, "O") = 1
    /\ Count(squares, "X") = 1

====
